---- MODULE Spec2Model ----
(***************************************************************************)
(* Model of main.py: the module-level session creation (profile load,      *)
(* opening prompt, seed, opening request), run_action / main_loop, and the *)
(* Gradio ChatInterface that drives main_loop (submit, Retry, Undo,        *)
(* Clear).                                                                 *)
(*                                                                         *)
(* Python strings are sequences of one-character strings, so that          *)
(* str.lower() is computed character by character.  Prompt texts are       *)
(* sequences of their template pieces and interpolated fields.             *)
(***************************************************************************)
EXTENDS Integers, Sequences, FiniteSets, TLC

VARIABLES
    pc,            \* position of the module-level script
    file,          \* elara.json on disk: [exists, data]
    character,     \* module global `character`
    system_prompt, \* module global `system_prompt` (opening prompt)
    messages,      \* module global `messages` (opening message list)
    game_state,    \* module global `game_state` dict
    requests,      \* every ollama.chat request sent so far, in order
    uiHistory,     \* the ChatInterface's chat history ([user, assistant] pairs)
    last,          \* the most recent main_loop call: arguments and outcome
    calls,         \* number of main_loop calls made so far
    pair,          \* two independent sessions (two runs of the program)
    oracle         \* deterministic backend: the (request, reply) pairs fixed so far

vars == <<pc, file, character, system_prompt, messages, game_state, requests,
          uiHistory, last, calls, pair, oracle>>

(***************************************************************************)
(* Bounds                                                                  *)
(***************************************************************************)
MaxCalls == 3
MaxPairCalls == 3

(***************************************************************************)
(* Strings                                                                 *)
(***************************************************************************)
UpperCase == <<"A","B","C","D","E","F","G","H","I","J","K","L","M",
               "N","O","P","Q","R","S","T","U","V","W","X","Y","Z">>
LowerCase == <<"a","b","c","d","e","f","g","h","i","j","k","l","m",
               "n","o","p","q","r","s","t","u","v","w","x","y","z">>

\* the lower-case letter of each upper-case letter
LowerMap ==
    [c \in {UpperCase[i] : i \in DOMAIN UpperCase} |->
        LowerCase[CHOOSE i \in DOMAIN UpperCase : UpperCase[i] = c]]

LowerChar(c) == IF c \in DOMAIN LowerMap THEN LowerMap[c] ELSE c

\* str.lower()
lower(s) == [i \in 1..Len(s) |-> LowerChar(s[i])]

Whitespace == {" ", "\t", "\n"}

\* str.strip(): leading and trailing whitespace removed
RECURSIVE lstrip(_)
lstrip(s) == IF s # <<>> /\ Head(s) \in Whitespace THEN lstrip(Tail(s)) ELSE s
RECURSIVE rstrip(_)
rstrip(s) ==
    IF s # <<>> /\ s[Len(s)] \in Whitespace
    THEN rstrip(SubSeq(s, 1, Len(s) - 1)) ELSE s
strip(s) == rstrip(lstrip(s))

\* the literal 'start game'

StartSentinel == <<"s","t","a","r","t"," ","g","a","m","e">>

\* player inputs
StartLower  == <<"s","t","a","r","t"," ","g","a","m","e">>
StartUpper  == <<"S","T","A","R","T"," ","G","A","M","E">>
StartPadded == <<" ","S","t","a","r","t"," ","G","a","m","e"," ">>
LookAround  == <<"L","o","o","k"," ","a","r","o","u","n","d">>

Utterances == {StartLower, StartUpper, StartPadded, LookAround}

\* backend reply texts
Replies == {<<"R","1">>, <<"R","2">>}


\* ollama.chat either returns a reply or raises
Outcomes == {[ok |-> TRUE, content |-> r] : r \in Replies}
            \cup {[ok |-> FALSE, content |-> <<>>]}

(***************************************************************************)
(* Character profile                                                       *)
(***************************************************************************)
Elara == [name |-> "Elara",
          physical |-> [race |-> [name |-> "Elf"]],
          class |-> [name |-> "Mage"],
          behaviour |-> <<"anxious", "perfectionist">>]

\* a JSON object that lacks the keys the prompts read
Nameless == [behaviour |-> <<"anxious">>]

EmptyDict == [k \in {} |-> k]

Files == {[exists |-> TRUE, data |-> Elara],
          [exists |-> TRUE, data |-> Nameless],
          [exists |-> FALSE, data |-> EmptyDict]}

\* load_json: the parsed file, or {} on FileNotFoundError
load_json(f) == IF f.exists THEN f.data ELSE EmptyDict

\* the subscripts the two prompt templates evaluate; a missing key raises KeyError
HasPromptKeys(c) ==
    /\ "name" \in DOMAIN c
    /\ "physical" \in DOMAIN c
    /\ "race" \in DOMAIN c.physical
    /\ "name" \in DOMAIN c.physical.race
    /\ "class" \in DOMAIN c
    /\ "name" \in DOMAIN c.class
    /\ "behaviour" \in DOMAIN c

\* str(character) as interpolated by the opening prompt
Repr(c) == <<c.name, c.physical.race.name, c.class.name>> \o c.behaviour

\* the opening system prompt (module level)
OpeningSystemPrompt(c) ==
    <<"You are an AI Game master. Your job is to create a start to an adventure.",
      "You are playing as", c.name, c.physical.race.name, c.class.name,
      "Character Behaviors">>
    \o c.behaviour
    \o <<"Instructions", "second person",
         c.name, c.physical.race.name, c.class.name,
         "present tense", "exact details">>
    \o Repr(c)
    \o <<"1 paragraph", "2-4 options">>

\* the module-level `messages` list
OpeningMessages(prompt) ==
    <<[role |-> "system", content |-> prompt],
      [role |-> "user", content |-> <<"Your Start:">>]>>

\* the gameplay system prompt built inside run_action
GameSystemPrompt(c) ==
    <<"You are an AI Game master. Your job is to write what happens next in a player's adventure game.",
      "You are playing as", c.name, c.physical.race.name, c.class.name,
      "Character Data", c.physical.race.name, c.class.name,
      "Behaviors">>
    \o c.behaviour
    \o <<"Instructions", "at least 2 behaviors", "1 paragraph",
         c.name, c.physical.race.name, c.class.name,
         "2-4 options">>

(***************************************************************************)
(* Generation requests                                                     *)
(***************************************************************************)
Temperature == 0
SeedLow == 0
SeedHigh == 1000000

\* np.random.randint(0, 1000000) draws from SeedLow .. SeedHigh - 1; the model
\* draws the two ends of that range
SeedSamples == {SeedLow, SeedHigh - 1}

\* variant: the seed is advanced for the request
ChatOptionsReseeded(seed) == [temperature |-> Temperature, seed |-> seed + 1]

ChatOptions(seed) == [temperature |-> Temperature, seed |-> seed]

\* the keyword arguments of ollama.chat
ChatRequest(msgs, seed) ==
    [model |-> "mattw/llama2-13b-tiefighter",
     messages |-> msgs,
     options |-> ChatOptions(seed),
     stream |-> FALSE]

(***************************************************************************)
(* run_action                                                              *)
(***************************************************************************)
\* variant: the comparison without lower()
IsStartGameCaseSensitive(message) == message = StartSentinel

\* variant: the comparison after strip()
IsStartGameTrimmed(message) == lower(strip(message)) = StartSentinel

\* message.lower() == 'start game'
IsStartGame(message) == lower(message) = StartSentinel

\* the loop over game_state['history']
RECURSIVE ReplayHistory(_)
ReplayHistory(h) ==
    IF h = <<>> THEN <<>>
    ELSE <<[role |-> "user", content |-> Head(h)[1]],
           [role |-> "assistant", content |-> Head(h)[2]]>>
         \o ReplayHistory(Tail(h))

\* variant: the transcript is not replayed
ComposeMessagesNoReplay(message, history, gs, c) ==
    <<[role |-> "system", content |-> GameSystemPrompt(c)]>>
    \o (IF Len(gs.history) > 0 \/ Len(history) > 0
        THEN <<[role |-> "assistant", content |-> gs.start]>>
        ELSE <<>>)
    \o <<[role |-> "user", content |-> message]>>

\* variant: the test reads the transcript only, not the history argument
ComposeMessagesTranscriptOnly(message, history, gs, c) ==
    <<[role |-> "system", content |-> GameSystemPrompt(c)]>>
    \o (IF Len(gs.history) > 0
        THEN <<[role |-> "assistant", content |-> gs.start]>>
             \o ReplayHistory(gs.history)
        ELSE <<>>)
    \o <<[role |-> "user", content |-> message]>>

\* variant: the history argument is replayed instead of the transcript
ComposeMessagesUiReplay(message, history, gs, c) ==
    <<[role |-> "system", content |-> GameSystemPrompt(c)]>>
    \o (IF Len(gs.history) > 0 \/ Len(history) > 0
        THEN <<[role |-> "assistant", content |-> gs.start]>>
             \o ReplayHistory(history)
        ELSE <<>>)
    \o <<[role |-> "user", content |-> message]>>

\* the message list run_action builds for a non-start message
ComposeMessages(message, history, gs, c) ==
    <<[role |-> "system", content |-> GameSystemPrompt(c)]>>
    \o (IF Len(gs.history) > 0 \/ Len(history) > 0
        THEN <<[role |-> "assistant", content |-> gs.start]>>
             \o ReplayHistory(gs.history)
        ELSE <<>>)
    \o <<[role |-> "user", content |-> message]>>

\* variant: the lower-cased message is stored
AppendTurnLowered(gs, message, result) ==
    [gs EXCEPT !.history = Append(@, <<lower(message), result>>)]

\* variant: the history is assigned, not appended to
AppendTurnOverwrite(gs, message, result) ==
    [gs EXCEPT !.history = <<<<message, result>>>>]

\* game_state['history'].append((message, result))
AppendTurn(gs, message, result) ==
    [gs EXCEPT !.history = Append(@, <<message, result>>)]

\* the early return for the start message
RunActionStart(message, history, gs, c) ==
    [kind |-> "reply", value |-> gs.start, game_state |-> gs, sent |-> <<>>]

\* ollama.chat returns: the reply is stored and returned
RunActionReply(message, history, gs, c, content) ==
    [kind |-> "reply", value |-> content,
     game_state |-> AppendTurn(gs, message, content),
     sent |-> <<ChatRequest(ComposeMessages(message, history, gs, c), gs.seed)>>]

\* variant: the turn is stored before the backend is called
RunActionRaiseAppended(message, history, gs, c) ==
    [kind |-> "error", value |-> <<>>,
     game_state |-> [gs EXCEPT !.history = Append(@, <<message, <<>>>>)],
     sent |-> <<ChatRequest(ComposeMessages(message, history, gs, c), gs.seed)>>]

\* ollama.chat raises: the exception leaves run_action at the call
RunActionRaise(message, history, gs, c) ==
    [kind |-> "error", value |-> <<>>, game_state |-> gs,
     sent |-> <<ChatRequest(ComposeMessages(message, history, gs, c), gs.seed)>>]

\* run_action(message, history, game_state) against a backend outcome `out`:
\* what it returns or raises, the game_state it leaves, the requests it sent
run_action(message, history, gs, c, out) ==
    IF IsStartGame(message) THEN RunActionStart(message, history, gs, c)
    ELSE IF out.ok THEN RunActionReply(message, history, gs, c, out.content)
    ELSE RunActionRaise(message, history, gs, c)

(***************************************************************************)
(* Session creation: the module-level statements, in order                 *)
(***************************************************************************)
Unset == <<>>
NoCall == [message |-> <<>>, history |-> <<>>, backend |-> "unused",
           kind |-> "none", value |-> <<>>]

Init ==
    /\ pc = "load"
    /\ file \in Files
    /\ character = Unset
    /\ system_prompt = Unset
    /\ messages = Unset
    /\ game_state = Unset
    /\ requests = <<>>
    /\ uiHistory = <<>>
    /\ last = NoCall
    /\ calls = 0
    /\ pair = Unset
    /\ oracle = {}

\* character = load_json('elara')
LoadJson ==
    /\ pc = "load"
    /\ character' = load_json(file)
    /\ pc' = "prompt"
    /\ UNCHANGED <<file, system_prompt, messages, game_state, requests,
                   uiHistory, last, calls, pair, oracle>>

\* system_prompt = f"""...""" ; messages = [...]
BuildOpeningPrompt ==
    /\ pc = "prompt"
    /\ HasPromptKeys(character)
    /\ system_prompt' = OpeningSystemPrompt(character)
    /\ messages' = OpeningMessages(system_prompt')
    /\ pc' = "seed"
    /\ UNCHANGED <<file, character, game_state, requests, uiHistory, last,
                   calls, pair, oracle>>

\* the f-string subscripts a key the profile lacks: KeyError ends the script
BuildOpeningPromptKeyError ==
    /\ pc = "prompt"
    /\ ~HasPromptKeys(character)
    /\ pc' = "crashed"
    /\ UNCHANGED <<file, character, system_prompt, messages, game_state,
                   requests, uiHistory, last, calls, pair, oracle>>

\* game_state = {'seed': np.random.randint(0, 1000000), ...}
InitGameState ==
    /\ pc = "seed"
    /\ \E seed \in SeedSamples :
          game_state' = [seed |-> seed, character |-> character, history |-> <<>>]
    /\ pc' = "opening"
    /\ UNCHANGED <<file, character, system_prompt, messages, requests,
                   uiHistory, last, calls, pair, oracle>>

\* model_output = ollama.chat(...) ; game_state['start'] = ... ; the interface
\* is launched
OpeningChat ==
    /\ pc = "opening"
    /\ requests' = Append(requests, ChatRequest(messages, game_state.seed))
    /\ \E out \in Outcomes :
          IF out.ok
          THEN /\ game_state' = game_state @@ [start |-> out.content]
               /\ pc' = "ready"
          ELSE /\ game_state' = game_state
               /\ pc' = "crashed"
    /\ UNCHANGED <<file, character, system_prompt, messages, uiHistory, last,
                   calls, pair, oracle>>

(***************************************************************************)
(* The chat interface                                                      *)
(***************************************************************************)
\* history[:-1]
DropLast(h) == IF h = <<>> THEN <<>> ELSE SubSeq(h, 1, Len(h) - 1)

\* main_loop(message, history) called by the interface; on an exception the
\* interface keeps the chat as it was or keeps the unanswered input (pending)
MainLoop(message, history, out, pending) ==
    LET r == run_action(message, history, game_state, character, out) IN
    /\ game_state' = r.game_state
    /\ requests' = requests \o r.sent
    /\ last' = [message |-> message, history |-> history,
                backend |-> IF r.sent = <<>> THEN "unused"
                            ELSE IF out.ok THEN "returned" ELSE "raised",
                kind |-> r.kind, value |-> r.value]
    /\ calls' = calls + 1
    /\ uiHistory' = IF r.kind = "reply" THEN Append(history, <<message, r.value>>)
                    ELSE IF pending THEN Append(history, <<message, <<>>>>)
                    ELSE history
    /\ UNCHANGED <<pc, file, character, system_prompt, messages, pair, oracle>>

\* the player submits a message
Submit(message, out, pending) ==
    /\ pc = "ready"
    /\ calls < MaxCalls
    /\ MainLoop(message, uiHistory, out, pending)

\* retry_btn: the last exchange is removed and the last input submitted again
Retry(out, pending) ==
    /\ pc = "ready"
    /\ calls < MaxCalls
    /\ last.kind # "none"
    /\ MainLoop(last.message, DropLast(uiHistory), out, pending)

\* undo_btn: the last exchange is removed from the chat
Undo ==
    /\ pc = "ready"
    /\ uiHistory' = DropLast(uiHistory)
    /\ UNCHANGED <<pc, file, character, system_prompt, messages, game_state,
                   requests, last, calls, pair, oracle>>

\* clear_btn: the chat is emptied
Clear ==
    /\ pc = "ready"
    /\ uiHistory' = <<>>
    /\ UNCHANGED <<pc, file, character, system_prompt, messages, game_state,
                   requests, last, calls, pair, oracle>>

Next ==
    \/ LoadJson
    \/ BuildOpeningPrompt
    \/ BuildOpeningPromptKeyError
    \/ InitGameState
    \/ OpeningChat
    \/ \E message \in Utterances, out \in Outcomes, pending \in BOOLEAN :
          Submit(message, out, pending)
    \/ \E out \in Outcomes, pending \in BOOLEAN : Retry(out, pending)
    \/ Undo
    \/ Clear

Spec == Init /\ [][Next]_vars

(***************************************************************************)
(* Two sessions: two runs of the program with the same profile, the same   *)
(* drawn seed and one deterministic backend.  The backend is a function of *)
(* the request: `oracle` holds the (request, reply) pairs fixed so far, a  *)
(* request seen before gets the reply it got before, a new one any reply.  *)
(***************************************************************************)
Sessions == {1, 2}

PairUtterances == {StartUpper, LookAround}

\* rep is a reply the backend may give to req
Answers(req, rep) == \A p \in oracle : p[1] = req => p[2] = rep

PairInit ==
    /\ pc = "pair"
    /\ file = [exists |-> TRUE, data |-> Elara]
    /\ character = load_json(file)
    /\ system_prompt = OpeningSystemPrompt(character)
    /\ messages = OpeningMessages(system_prompt)
    /\ game_state = Unset
    /\ requests = <<>>
    /\ uiHistory = <<>>
    /\ last = NoCall
    /\ calls = 0
    /\ oracle = {}
    /\ \E seed \in SeedSamples :
          pair = [s \in Sessions |->
                    [pc |-> "opening",
                     game_state |-> [seed |-> seed, character |-> character,
                                     history |-> <<>>],
                     uiHistory |-> <<>>,
                     calls |-> 0,
                     first |-> "none"]]

\* the opening request of session s
PairOpeningChat(s, rep) ==
    LET req == ChatRequest(messages, pair[s].game_state.seed) IN
    /\ pair[s].pc = "opening"
    /\ Answers(req, rep)
    /\ oracle' = oracle \cup {<<req, rep>>}
    /\ pair' = [pair EXCEPT ![s].pc = "ready",
                            ![s].game_state = @ @@ [start |-> rep]]
    /\ UNCHANGED <<pc, file, character, system_prompt, messages, game_state,
                   requests, uiHistory, last, calls>>

\* the player of session s submits a message; `first` keeps whether the chat
\* history passed to the session's first non-start call was empty
PairSubmit(s, message, rep) ==
    LET p == pair[s]
        r == run_action(message, p.uiHistory, p.game_state, character,
                        [ok |-> TRUE, content |-> rep])
    IN
    /\ p.pc = "ready"
    /\ p.calls < MaxPairCalls
    /\ \A i \in DOMAIN r.sent : Answers(r.sent[i], rep)
    /\ oracle' = oracle \cup {<<r.sent[i], rep>> : i \in DOMAIN r.sent}
    /\ pair' = [pair EXCEPT
                  ![s].game_state = r.game_state,
                  ![s].uiHistory = Append(@, <<message, r.value>>),
                  ![s].calls = @ + 1,
                  ![s].first = IF @ = "none" /\ r.sent # <<>>
                               THEN (IF p.uiHistory = <<>> THEN "empty" ELSE "shown")
                               ELSE @]
    /\ UNCHANGED <<pc, file, character, system_prompt, messages, game_state,
                   requests, uiHistory, last, calls>>

PairNext ==
    \/ \E s \in Sessions, rep \in Replies : PairOpeningChat(s, rep)
    \/ \E s \in Sessions, message \in PairUtterances, rep \in Replies :
          PairSubmit(s, message, rep)

SpecPair == PairInit /\ [][PairNext]_vars

(***************************************************************************)
(* Properties of one session                                               *)
(***************************************************************************)
\* equality of two strings when letter case is ignored
CaseInsensitiveEq(s, t) ==
    /\ Len(s) = Len(t)
    /\ \A i \in 1..Len(s) : LowerChar(s[i]) = LowerChar(t[i])

\* the utterance is 'start game' in some letter case
IsSentinel(u) == CaseInsensitiveEq(u, StartSentinel)

\* the step is one main_loop call
CallStep == calls' = calls + 1

\* the request sent last
LastRequest == requests[Len(requests)]

AssistantMsg(text) == [role |-> "assistant", content |-> text]
UserMsg(text) == [role |-> "user", content |-> text]

\* system, assistant(opening), user(u1), assistant(r1), ..., user(u), by position
ReplayContract(gs, c, u) ==
    [i \in 1..(2 * Len(gs.history) + 3) |->
        IF i = 1 THEN [role |-> "system", content |-> GameSystemPrompt(c)]
        ELSE IF i = 2 THEN AssistantMsg(gs.start)
        ELSE IF i = 2 * Len(gs.history) + 3 THEN UserMsg(u)
        ELSE IF i % 2 = 1 THEN UserMsg(gs.history[(i - 1) \div 2][1])
        ELSE AssistantMsg(gs.history[(i - 2) \div 2][2])]

\* C1: a non-start call on a session whose transcript holds n >= 1 turns sends
\* exactly system, assistant(opening), user(u1), assistant(r1), ..., user(un),
\* assistant(rn), user(u), in this order and nothing else.
C1_ReplayOrder ==
    [][(CallStep /\ ~IsSentinel(last'.message) /\ Len(game_state.history) >= 1)
        => /\ Len(requests') = Len(requests) + 1
           /\ requests'[Len(requests')].messages
                = ReplayContract(game_state, character, last'.message)]_vars

C1_Witness ==
    /\ pc = "ready"
    /\ ~IsSentinel(last.message)
    /\ last.kind = "reply"
    /\ Len(game_state.history) = 3
    /\ Len(LastRequest.messages) = 7
    /\ LastRequest.messages[7] = UserMsg(last.message)

\* C2: a non-start call whose backend request succeeds sends exactly one
\* request and appends exactly the turn (u, r): u the input unchanged, r the
\* reply returned; the earlier turns are unchanged.
C2_OneTurnPerCall ==
    [][(CallStep /\ ~IsSentinel(last'.message) /\ last'.backend = "returned")
        => /\ Len(requests') = Len(requests) + 1
           /\ SubSeq(requests', 1, Len(requests)) = requests
           /\ last'.kind = "reply"
           /\ game_state'.history
                = Append(game_state.history, <<last'.message, last'.value>>)]_vars

C2_Witness ==
    /\ pc = "ready"
    /\ last.message = LookAround
    /\ last.backend = "returned"
    /\ Len(game_state.history) = 2
    /\ game_state.history[2] = <<LookAround, last.value>>

\* C3: at any point of a session a call whose utterance is 'start game' in any
\* letter case returns the opening narrative, sends no request and leaves the
\* transcript, the seed and the opening narrative unchanged; the opening
\* narrative never changes once the session is ready.
C3_StartReplaysOpening ==
    [][/\ (CallStep /\ IsSentinel(last'.message))
            => /\ last'.kind = "reply"
               /\ last'.value = game_state.start
               /\ requests' = requests
               /\ game_state' = game_state
       /\ pc = "ready" => game_state'.start = game_state.start]_vars

C3_Witness ==
    /\ pc = "ready"
    /\ last.message = StartUpper
    /\ last.kind = "reply"
    /\ last.value = game_state.start
    /\ Len(game_state.history) = 2

\* C4: when the backend raises during a non-start call the transcript, the
\* seed and the opening narrative are as before the call and the caller gets
\* an error, not a reply.
C4_FailureKeepsTranscript ==
    [][(CallStep /\ last'.backend = "raised")
        => /\ last'.kind = "error"
           /\ game_state' = game_state]_vars

C4_Witness ==
    /\ pc = "ready"
    /\ last.backend = "raised"
    /\ last.kind = "error"
    /\ ~IsSentinel(last.message)
    /\ Len(game_state.history) = 2

\* C5 as claimed: every non-start call sends the opening narrative as an
\* assistant message directly after the system message, whatever the
\* transcript and the history argument are.
C5_OpeningAlwaysSent ==
    (last.kind # "none" /\ ~IsSentinel(last.message))
        => /\ Len(LastRequest.messages) >= 3
           /\ LastRequest.messages[2] = AssistantMsg(game_state.start)

\* C5 amended: a non-start call sends the opening narrative directly after
\* the system message exactly when the transcript or the history argument is
\* non-empty; when both are empty it sends only system, user(u).
C5_OpeningSentIffHistory ==
    [][(CallStep /\ ~IsSentinel(last'.message))
        => LET sent == requests'[Len(requests')].messages IN
           /\ Len(requests') = Len(requests) + 1
           /\ sent[1] = [role |-> "system", content |-> GameSystemPrompt(character)]
           /\ IF Len(game_state.history) > 0 \/ Len(last'.history) > 0
              THEN /\ Len(sent) >= 3
                   /\ sent[2] = AssistantMsg(game_state.start)
              ELSE sent = <<sent[1], UserMsg(last'.message)>>]_vars

C5_Witness ==
    /\ pc = "ready"
    /\ calls = 1
    /\ ~IsSentinel(last.message)
    /\ last.history = <<>>
    /\ Len(LastRequest.messages) = 2
    /\ LastRequest.messages[2] = UserMsg(last.message)

\* C7 as claimed: an utterance that equals 'start game' once leading and
\* trailing whitespace is removed and letter case is ignored is handled as
\* the start sentinel: it returns the opening narrative and sends no request.
C7_TrimmedStartIsSentinel ==
    (last.kind # "none" /\ IsSentinel(strip(last.message)))
        => /\ last.backend = "unused"
           /\ last.value = game_state.start

\* C7 amended: the start test is a case-insensitive exact match with no
\* trimming.  An utterance equal to 'start game' up to letter case returns the
\* opening narrative, sends no request and appends no turn; every other
\* utterance, one with leading or trailing whitespace included, sends one
\* request and, when the backend replies, appends one turn.
C7_ExactMatchNoTrim ==
    [][CallStep
        => IF IsSentinel(last'.message)
           THEN /\ last'.value = game_state.start
                /\ requests' = requests
                /\ game_state'.history = game_state.history
           ELSE /\ Len(requests') = Len(requests) + 1
                /\ last'.backend = "returned"
                     => Len(game_state'.history) = Len(game_state.history) + 1]_vars

C7_Witness ==
    /\ pc = "ready"
    /\ last.message = StartPadded
    /\ IsSentinel(strip(last.message))
    /\ last.backend = "returned"
    /\ game_state.history[Len(game_state.history)][1] = StartPadded

\* s is an initial part of t
IsPrefix(s, t) == Len(s) <= Len(t) /\ SubSeq(t, 1, Len(s)) = s

\* C8: the transcript is append-only: over any step (start calls, successful
\* and failed calls, Retry, Undo, Clear) the transcript before the step is a
\* prefix of the transcript after it.
C8_TranscriptAppendOnly ==
    [][pc = "ready" => IsPrefix(game_state.history, game_state'.history)]_vars

C8_Witness ==
    /\ pc = "ready"
    /\ Len(game_state.history) = 2
    /\ uiHistory = <<>>
    /\ calls = 3
    /\ last.kind = "error"

\* C9: the seed lies in 0 .. 999999 and every request sent so far, the opening
\* request and each continuation request, carries the session's current seed,
\* temperature 0 and streaming disabled.
C9_SeedFixed ==
    pc \in {"opening", "ready", "crashed"} /\ game_state # Unset
        => /\ game_state.seed \in 0..999999
           /\ \A i \in DOMAIN requests :
                /\ requests[i].options = [temperature |-> 0, seed |-> game_state.seed]
                /\ requests[i].stream = FALSE

C9_Witness ==
    /\ pc = "ready"
    /\ Len(requests) = 4
    /\ game_state.seed = 999999
    /\ requests[1].messages = messages
    /\ requests[4].options.seed = 999999

\* C10: with the character profile file absent, session creation does not
\* stop before the opening request is sent.
C10_MissingProfileNotFatal ==
    (~file.exists /\ pc = "crashed") => Len(requests) > 0

(***************************************************************************)
(* Properties of two sessions                                              *)
(***************************************************************************)
\* the player utterances of a transcript, in order
UtterancesOf(h) == [i \in 1..Len(h) |-> h[i][1]]

BothReady == \A s \in Sessions : pair[s].pc = "ready"

\* C6 as claimed: two sessions with the same seed and profile that have played
\* the same sequence of non-start utterances against a deterministic backend,
\* with start calls interleaved anywhere, hold identical transcripts.
C6_SameUtterancesSameTranscript ==
    (/\ BothReady
     /\ UtterancesOf(pair[1].game_state.history)
          = UtterancesOf(pair[2].game_state.history))
        => pair[1].game_state.history = pair[2].game_state.history

\* C6 amended: the transcripts are identical provided the chat history passed
\* to the first non-start call is empty in both sessions or non-empty in both
\* (a start call comes before the first non-start utterance in both sessions
\* or in neither).
C6_SameFirstHistorySameTranscript ==
    (/\ BothReady
     /\ UtterancesOf(pair[1].game_state.history)
          = UtterancesOf(pair[2].game_state.history)
     /\ pair[1].first = pair[2].first)
        => /\ pair[1].game_state.history = pair[2].game_state.history
           /\ pair[1].game_state.start = pair[2].game_state.start

C6_Witness ==
    /\ BothReady
    /\ Len(pair[1].game_state.history) = 2
    /\ pair[1].game_state.history = pair[2].game_state.history
    /\ pair[1].first = "empty"
    /\ pair[2].first = "empty"
    /\ pair[1].calls = 3
    /\ pair[2].calls = 2

====
